---- MODULE Spec2Model ----
(***************************************************************************)
(* Model of the ECS Fargate "golden path" repository.                      *)
(*                                                                         *)
(*   Spec      : the sample FastAPI application (src/app/app.py) serving   *)
(*               requests against the SSM failure-mode parameter and the   *)
(*               simulated database connection.                            *)
(*   SpecInfra : the CDK program (src/infra) constructing ComputeStack,    *)
(*               DeploymentStack and the Alarms construct, followed by the *)
(*               behaviour the declared autoscaling target and the ECS     *)
(*               task-count alarm have once deployed.                      *)
(*   SpecEntry : the entry point src/infra/app.py from its context values  *)
(*               through the stack constructions to synth (or the same     *)
(*               stacks constructed directly), and the declared web ACL    *)
(*               evaluating requests.                                      *)
(*   SpecWork  : one GET /work request of the application taken statement  *)
(*               by statement against a clock that ticks between them;     *)
(*               SpecWorkFair adds that the clock and the handler advance. *)
(*   SpecHealth: the target group's health check, as ComputeStack declares *)
(*               it, calling GET /healthz while the parameter is written.  *)
(***************************************************************************)
EXTENDS Integers, Sequences, FiniteSets, TLC

VARIABLES
    \* ---- application (src/app/app.py) ----
    deployed,            \* TRUE: runs as the ECS task of ComputeStack; FALSE: run by hand
    PARAM_FAILURE_MODE,  \* app.py:68
    DB_SECRET_ARN,       \* app.py:67
    allowed_actions,     \* IAM actions the process's credentials allow
    ssm_param,           \* value stored in the SSM parameter /golden/failure_mode
    db_connection,       \* app.py:62, {} for None, else a one-element set
    resp,                \* the last response, with what the handler did
    log,                 \* the last "Request processed" record (app.py:174-190)
    last_write,          \* who wrote the parameter last and the value they sent
    \* ---- infrastructure (src/infra) ----
    pc,                  \* position of the CDK program
    desired_count,       \* ComputeStack(desired_count=...)
    alarm_email,         \* Alarms(alarm_email=...)
    webhook_url,         \* Alarms(webhook_url=...)
    db_engine,           \* DataStack(db_engine=...)
    target_groups,       \* target groups created by ComputeStack
    wiring,              \* who refers to which target group
    scaling,             \* the autoscaling target and its policies
    subscriptions,       \* subscriptions of the alarm topic
    created_alarms,      \* cloudwatch.Alarm constructs created in the Alarms scope
    alarms,              \* Alarms.alarms (a list)
    task_count,          \* ECS service desired count as driven by autoscaling
    running,             \* datapoints of RunningTaskCount, newest last
    alarm_state,         \* state of the ECS task-count alarm
    \* ---- entry point (src/infra/app.py) and what it constructs ----
    driver,              \* "app.py", or "direct": stacks constructed by keyword arguments
    step,                \* what the entry point (or the direct caller) does next
    context,             \* CDK context (cdk.json / -c), each key absent or supplied
    options,             \* the arguments the stacks are constructed with
    stacks,              \* what each stack has created so far
    dependencies,        \* pairs <<a, b>>: a.add_dependency(b)
    error,               \* the exception that ended the program, "" if none
    waf_last,            \* the last request evaluated by the web ACL
    blocked,             \* BlockedRequests of the current period, by Rule dimension
    waf_alarm_state,     \* states of the two WAF alarms
    \* ---- one GET /work request, statement by statement (app.py:241-272) ----
    work,                \* the request being served: position, ms, deadline
    now,                 \* time.time() in clock ticks, counted from the reading
                         \* the request took as start_time
    \* ---- the load balancer's health checking of one target ----
    target,              \* health state and the current run of passed/failed checks
    checks               \* modes read by the most recent health checks, newest last

app_vars == <<deployed, PARAM_FAILURE_MODE, DB_SECRET_ARN, allowed_actions,
              ssm_param, db_connection, resp, log, last_write>>
infra_vars == <<pc, desired_count, alarm_email, webhook_url, db_engine,
                target_groups, wiring, scaling, subscriptions, created_alarms,
                alarms, task_count, running, alarm_state>>
entry_vars == <<driver, step, context, options, stacks, dependencies, error,
                waf_last, blocked, waf_alarm_state>>
work_vars == <<work, now>>
health_vars == <<target, checks>>
vars == <<app_vars, infra_vars, entry_vars, work_vars, health_vars>>

Max(a, b) == IF a >= b THEN a ELSE b
\* Mutant: the cap is dropped, the first argument is taken as it is.
Min_uncapped(a, b) == a

Min(a, b) == IF a <= b THEN a ELSE b

(***************************************************************************)
(* Bounds                                                                  *)
(***************************************************************************)
MaxTime == 1          \* datetime.utcnow() readings are drawn from 0..MaxTime
MaxDesired == 2       \* desired_count is drawn from 1..MaxDesired

Times == 0..MaxTime

(***************************************************************************)
(* Values of the failure-mode parameter.  set_failure_mode stores any      *)
(* string, so values no comparison mentions are included.                  *)
(***************************************************************************)
ModeValues == {"none", "return_500", "connection_leak", "cpu_burn", "RETURN_500"}

FailureModeParameterName == "/golden/failure_mode"
SecretArn == "arn:aws:secretsmanager:db-credentials"

(***************************************************************************)
(* ComputeStack._create_ecs_service: what the task role allows and the     *)
(* container environment the application is started with.                  *)
(***************************************************************************)
TaskRolePolicy(enable_break_fix) ==
    {"secretsmanager:GetSecretValue", "xray:PutTraceSegments", "xray:PutTelemetryRecords"}
      \cup (IF enable_break_fix THEN {"ssm:GetParameter"} ELSE {})

ContainerEnvironment(enable_break_fix) ==
    [DB_SECRET_ARN |-> SecretArn,
     PARAM_FAILURE_MODE |-> IF enable_break_fix THEN FailureModeParameterName ELSE ""]

\* Credentials of a process started by hand (uvicorn, app.py:362-365).
LocalCredentials ==
    {"ssm:GetParameter", "ssm:PutParameter", "secretsmanager:GetSecretValue"}

IamAllows(action) == action \in allowed_actions

(***************************************************************************)
(* FailureMode                                                             *)
(***************************************************************************)
\* Mutant: a failed SSM read is answered with "return_500" (fail closed).
get_current_mode_fail_closed ==
    IF PARAM_FAILURE_MODE = ""
    THEN {[value |-> "none", calls |-> {}, denied |-> FALSE, ssm |-> "not_called"]}
    ELSE IF ~IamAllows("ssm:GetParameter")
    THEN {[value |-> "return_500", calls |-> {"ssm:GetParameter"}, denied |-> TRUE,
           ssm |-> "raised"]}
    ELSE {[value |-> ssm_param, calls |-> {"ssm:GetParameter"}, denied |-> FALSE,
           ssm |-> "returned"],
          [value |-> "return_500", calls |-> {"ssm:GetParameter"}, denied |-> FALSE,
           ssm |-> "raised"]}

\* Outcomes of FailureMode.get_current_mode(): the value returned and the
\* external calls made.  Any exception of the SSM read yields "none".
\* ssm tells how the read ended: "not_called", "raised" or "returned".
get_current_mode ==
    IF PARAM_FAILURE_MODE = ""
    THEN {[value |-> "none", calls |-> {}, denied |-> FALSE, ssm |-> "not_called"]}
    ELSE IF ~IamAllows("ssm:GetParameter")
    THEN {[value |-> "none", calls |-> {"ssm:GetParameter"}, denied |-> TRUE,
           ssm |-> "raised"]}
    ELSE {[value |-> ssm_param, calls |-> {"ssm:GetParameter"}, denied |-> FALSE,
           ssm |-> "returned"],
          [value |-> "none", calls |-> {"ssm:GetParameter"}, denied |-> FALSE,
           ssm |-> "raised"]}

LIT_RETURN_500 == "return_500"
LIT_CONNECTION_LEAK == "connection_leak"

\* Mutant: every mode other than "none" forces a 500.
should_return_500_any_mode(mode) == mode # "none"

should_return_500(mode) == mode = LIT_RETURN_500

\* Mutant: the literal is misspelt.
should_leak_connections_typo(mode) == mode = "connection-leak"

should_leak_connections(mode) == mode = LIT_CONNECTION_LEAK

(***************************************************************************)
(* DatabaseManager                                                         *)
(***************************************************************************)
None == {}

\* Outcomes of DatabaseManager.get_db_credentials(): ok = FALSE when it
\* raises HTTPException(500); host is credentials.get("host", "localhost").
get_db_credentials ==
    IF DB_SECRET_ARN = ""
    THEN {[ok |-> TRUE, host |-> "localhost", calls |-> {}]}
    ELSE IF ~IamAllows("secretsmanager:GetSecretValue")
    THEN {[ok |-> FALSE, host |-> "", calls |-> {"secretsmanager:GetSecretValue"}]}
    ELSE {[ok |-> TRUE, host |-> "db.cluster.internal", calls |-> {"secretsmanager:GetSecretValue"}],
          [ok |-> TRUE, host |-> "localhost", calls |-> {"secretsmanager:GetSecretValue"}],
          [ok |-> FALSE, host |-> "", calls |-> {"secretsmanager:GetSecretValue"}]}

\* Mutant: the "is None" test is dropped, every call connects anew.
get_connection_always_new ==
    { [ok |-> c.ok,
       conn |-> IF c.ok
                THEN {[host |-> c.host, connected |-> TRUE, connection_time |-> t]}
                ELSE db_connection,
       calls |-> c.calls] : c \in get_db_credentials, t \in Times }

\* Outcomes of DatabaseManager.get_connection(): ok = FALSE when it raises,
\* conn is the value of the global db_connection afterwards.
get_connection ==
    IF db_connection = None
    THEN { [ok |-> c.ok,
            conn |-> IF c.ok
                     THEN {[host |-> c.host, connected |-> TRUE, connection_time |-> t]}
                     ELSE None,
            calls |-> c.calls] : c \in get_db_credentials, t \in Times }
    ELSE {[ok |-> TRUE, conn |-> db_connection, calls |-> {}]}

QueryResult == "Query executed successfully"

\* Outcomes of DatabaseManager.execute_query(query).  leak_read is the outcome
\* of the get_current_mode() call made by should_leak_connections(); both
\* branches of that test leave the result and the connection alone.
execute_query(query) ==
    { IF g.ok
      THEN [ok |-> TRUE, conn |-> g.conn,
            result |-> [query |-> query, result |-> QueryResult, connection_info |-> g.conn],
            calls |-> g.calls \cup l.calls,
            leak |-> should_leak_connections(l.value),
            leak_mode |-> l.value,
            compared |-> {LIT_CONNECTION_LEAK}]
      ELSE [ok |-> FALSE, conn |-> g.conn,
            result |-> [query |-> query, result |-> "", connection_info |-> None],
            calls |-> g.calls,
            leak |-> FALSE,
            leak_mode |-> "-",
            compared |-> {}]
      : g \in get_connection, l \in get_current_mode }

(***************************************************************************)
(* Responses                                                               *)
(***************************************************************************)
NoResult == [query |-> "", result |-> "", connection_info |-> None]

\* No request has been logged yet.
NoLog == [keys |-> {}, method |-> "-", path |-> "-", status |-> 0,
          latencyMs |-> 0, errorType |-> "-"]

\* A response and the record of what the handler did to produce it:
\*   forced    the handler raised in its failure-mode branch
\*   mode      the value read by the handler's first check ("-" if none)
\*   work      the parts of the normal path that ran
\*   compared  literals the mode value was compared against
\*   calls     external API calls made by the handler itself
\*   db_calls  external API calls made inside DatabaseManager
\*   denied    an SSM call was rejected by IAM
\*   ssm       how the first get_current_mode() read ended ("-" if none)
\*   put       how the put_parameter call ended ("-" outside set_failure_mode)
Response(endpoint, status) ==
    [endpoint |-> endpoint, status |-> status, forced |-> FALSE, mode |-> "-",
     work |-> {}, compared |-> {}, calls |-> {}, db_calls |-> {}, denied |-> FALSE,
     failure_mode |-> "-", result |-> NoResult, database_connection |-> None,
     leak |-> FALSE, leak_mode |-> "-",
     requested_ms |-> 0, actual_ms |-> 0, input |-> "-", ssm |-> "-",
     put |-> "-"]

Forced500(endpoint, first) ==
    [Response(endpoint, 500) EXCEPT
        !.forced = TRUE, !.mode = first.value, !.compared = {LIT_RETURN_500},
        !.calls = first.calls, !.denied = first.denied, !.ssm = first.ssm]

Checked(endpoint, status, first) ==
    [Response(endpoint, status) EXCEPT
        !.mode = first.value, !.compared = {LIT_RETURN_500},
        !.calls = first.calls, !.denied = first.denied, !.ssm = first.ssm]

InitApp ==
    /\ deployed \in BOOLEAN
    /\ \/ /\ deployed
          /\ \E enable_break_fix \in BOOLEAN :
                /\ PARAM_FAILURE_MODE = ContainerEnvironment(enable_break_fix).PARAM_FAILURE_MODE
                /\ DB_SECRET_ARN = ContainerEnvironment(enable_break_fix).DB_SECRET_ARN
                /\ allowed_actions = TaskRolePolicy(enable_break_fix)
       \/ /\ ~deployed
          /\ PARAM_FAILURE_MODE \in {"", FailureModeParameterName}
          /\ DB_SECRET_ARN \in {"", SecretArn}
          /\ allowed_actions = LocalCredentials
    /\ ssm_param = "none"
    /\ db_connection = None
    /\ resp = Response("-", 0)
    /\ log = NoLog
    /\ last_write = [by |-> "deploy", value |-> "none"]

config_vars == <<deployed, PARAM_FAILURE_MODE, DB_SECRET_ARN, allowed_actions>>

(***************************************************************************)
(* Request handlers.  Each action is one request served to completion.     *)
(***************************************************************************)
WorkLimit == 5000
WorkInputs == {0 - 1, 0, 100, WorkLimit, WorkLimit + 1}

\* boto3 put_parameter(Name, Value, Type="String", Overwrite=True): the value
\* stored afterwards, given the value stored before and the value sent.
\* Mutant: Overwrite is left at its default and an existing value stays.
put_parameter_no_overwrite(stored, value) == stored

put_parameter(stored, value) == value

\* logging_middleware: the keyword arguments of logger.info("Request
\* processed", **log_data).  keys is the set of keys of the dictionary; a
\* key that is absent has the placeholder value "-".
LogKeys == {"requestId", "method", "path", "status", "latencyMs", "userAgent",
            "remoteAddr"}

\* Mutant: only statuses above 500 are labelled server_error.
log_data_above_500(method, path, status, latency_ms) ==
    LET base == [keys |-> LogKeys, method |-> method, path |-> path,
                 status |-> status, latencyMs |-> latency_ms, errorType |-> "-"]
    IN IF status >= 400
       THEN [base EXCEPT !.keys = @ \cup {"errorType"},
                         !.errorType = IF status > 500 THEN "server_error"
                                       ELSE "client_error"]
       ELSE base

log_data(method, path, status, latency_ms) ==
    LET base == [keys |-> LogKeys, method |-> method, path |-> path,
                 status |-> status, latencyMs |-> latency_ms, errorType |-> "-"]
    IN IF status >= 400
       THEN [base EXCEPT !.keys = @ \cup {"errorType"},
                         !.errorType = IF status >= 500 THEN "server_error"
                                       ELSE "client_error"]
       ELSE base

\* The middleware wraps every request: once call_next has produced the
\* response, the record is logged with the measured latency.
\* int((time.time() - start_time) * 1000) is whatever the clock measured.
Latencies == {0, 250}

Logged(method, path) ==
    \E latency_ms \in Latencies :
        log' = log_data(method, path, resp'.status, latency_ms)

\* Requests the framework answers before any handler runs: no route matches
\* the path (404), the route exists for another method (405), or the ms
\* query parameter of /work is not an integer (422).
Rejections == {[method |-> "GET", path |-> "/nope", status |-> 404],
               [method |-> "POST", path |-> "/healthz", status |-> 405],
               [method |-> "GET", path |-> "/work", status |-> 422]}

rejected_request ==
    /\ \E r \in Rejections :
          /\ resp' = [Response("(no handler)", r.status) EXCEPT
                         !.input = IF r.status = 422 THEN "abc" ELSE "-"]
          /\ Logged(r.method, r.path)
    /\ UNCHANGED <<config_vars, ssm_param, db_connection, last_write, infra_vars, entry_vars, work_vars, health_vars>>

Merge(r, read) ==
    [r EXCEPT !.calls = @ \cup read.calls, !.denied = @ \/ read.denied]

\* GET /
root ==
    /\ \E first \in get_current_mode :
          IF should_return_500(first.value)
          THEN resp' = Forced500("/", first)
          ELSE \E second \in get_current_mode :
                  resp' = Merge([Checked("/", 200, first) EXCEPT
                                    !.work = {"body"},
                                    !.failure_mode = second.value], second)
    /\ Logged("GET", "/")
    /\ UNCHANGED <<config_vars, ssm_param, db_connection, last_write, infra_vars, entry_vars, work_vars, health_vars>>

\* What GET /healthz answers when its get_current_mode() read ended as first.
health_check_response(first) ==
    IF should_return_500(first.value)
    THEN Forced500("/healthz", first)
    ELSE [Checked("/healthz", 200, first) EXCEPT !.work = {"body"}]

\* GET /healthz
health_check ==
    /\ \E first \in get_current_mode : resp' = health_check_response(first)
    /\ Logged("GET", "/healthz")
    /\ UNCHANGED <<config_vars, ssm_param, db_connection, last_write, infra_vars, entry_vars, work_vars, health_vars>>

\* The body GET /work returns after the busy wait.
work_completed(ms, first, requested_ms, actual_ms) ==
    [Checked("/work", 200, first) EXCEPT
        !.work = {"cpu_loop", "body"},
        !.input = ToString(ms),
        !.requested_ms = requested_ms,
        !.actual_ms = actual_ms]

\* GET /work?ms=... as one step.  The loop ends at the first clock reading
\* that is not below end_time; end_time is a float sum, rounded, and
\* actual_ms is truncated to whole milliseconds, so the measured time is the
\* requested one, a millisecond less, or more.
simulate_work ==
    /\ \E ms \in WorkInputs, first \in get_current_mode :
          IF should_return_500(first.value)
          THEN resp' = [Forced500("/work", first) EXCEPT !.input = ToString(ms)]
          ELSE LET limited == Min(ms, WorkLimit)
               IN \E overshoot \in {0 - 1, 0, 1} :
                     resp' = work_completed(ms, first, limited,
                                            Max(0, limited + overshoot))
    /\ Logged("GET", "/work")
    /\ UNCHANGED <<config_vars, ssm_param, db_connection, last_write, infra_vars, entry_vars, work_vars, health_vars>>

\* GET /db
database_query ==
    /\ \E first \in get_current_mode :
          IF should_return_500(first.value)
          THEN /\ resp' = Forced500("/db", first)
               /\ UNCHANGED db_connection
          ELSE \E q \in execute_query("SELECT 1 as test_column") :
                  /\ db_connection' = q.conn
                  /\ IF q.ok
                     THEN \E second \in get_current_mode :
                             resp' = Merge([Checked("/db", 200, first) EXCEPT
                                               !.work = {"db_call", "body"},
                                               !.compared = @ \cup q.compared,
                                               !.db_calls = q.calls,
                                               !.result = q.result,
                                               !.leak = q.leak,
                                               !.leak_mode = q.leak_mode,
                                               !.failure_mode = second.value], second)
                     ELSE resp' = [Checked("/db", 500, first) EXCEPT
                                      !.work = {"db_call"},
                                      !.compared = @ \cup q.compared,
                                      !.db_calls = q.calls]
    /\ Logged("GET", "/db")
    /\ UNCHANGED <<config_vars, ssm_param, last_write, infra_vars, entry_vars, work_vars, health_vars>>

\* GET /metrics
metrics ==
    /\ \E first \in get_current_mode :
          IF should_return_500(first.value)
          THEN /\ resp' = Forced500("/metrics", first)
               /\ UNCHANGED db_connection
          ELSE \E second \in get_current_mode, g \in get_connection :
                  /\ db_connection' = g.conn
                  /\ IF g.ok
                     THEN resp' = Merge([Checked("/metrics", 200, first) EXCEPT
                                            !.work = {"db_call", "body"},
                                            !.db_calls = g.calls,
                                            !.failure_mode = second.value,
                                            !.database_connection = g.conn], second)
                     ELSE resp' = Merge([Checked("/metrics", 500, first) EXCEPT
                                            !.work = {"db_call"},
                                            !.db_calls = g.calls], second)
    /\ Logged("GET", "/metrics")
    /\ UNCHANGED <<config_vars, ssm_param, last_write, infra_vars, entry_vars, work_vars, health_vars>>

\* Mutant: the admin read is gated like the other handlers.
get_failure_mode_gated ==
    /\ \E read \in get_current_mode :
          IF should_return_500(read.value)
          THEN resp' = Forced500("/admin/failure-mode", read)
          ELSE resp' = Merge([Response("/admin/failure-mode", 200) EXCEPT
                                 !.work = {"body"},
                                 !.failure_mode = read.value,
                                 !.ssm = read.ssm], read)
    /\ Logged("GET", "/admin/failure-mode")
    /\ UNCHANGED <<config_vars, ssm_param, db_connection, last_write, infra_vars, entry_vars, work_vars, health_vars>>

\* GET /admin/failure-mode
get_failure_mode ==
    /\ \E read \in get_current_mode :
          resp' = Merge([Response("/admin/failure-mode", 200) EXCEPT
                            !.work = {"body"},
                            !.failure_mode = read.value,
                            !.ssm = read.ssm], read)
    /\ Logged("GET", "/admin/failure-mode")
    /\ UNCHANGED <<config_vars, ssm_param, db_connection, last_write, infra_vars, entry_vars, work_vars, health_vars>>

\* Mutant: a put_parameter that raised is answered with 200.
set_failure_mode_swallows ==
    /\ \E mode \in ModeValues :
          /\ IF PARAM_FAILURE_MODE = ""
             THEN /\ resp' = [Response("POST /admin/failure-mode", 500) EXCEPT
                                 !.input = mode, !.put = "not_called"]
                  /\ UNCHANGED <<ssm_param, last_write>>
             ELSE IF ~IamAllows("ssm:PutParameter")
             THEN /\ resp' = [Response("POST /admin/failure-mode", 500) EXCEPT
                                 !.input = mode, !.calls = {"ssm:PutParameter"},
                                 !.denied = TRUE, !.put = "raised"]
                  /\ UNCHANGED <<ssm_param, last_write>>
             ELSE \/ /\ resp' = [Response("POST /admin/failure-mode", 200) EXCEPT
                                    !.input = mode, !.calls = {"ssm:PutParameter"},
                                    !.work = {"body"}, !.put = "returned"]
                     /\ ssm_param' = put_parameter(ssm_param, mode)
                     /\ last_write' = [by |-> "set_failure_mode", value |-> mode]
                  \/ /\ resp' = [Response("POST /admin/failure-mode", 200) EXCEPT
                                    !.input = mode, !.calls = {"ssm:PutParameter"},
                                    !.put = "raised"]
                     /\ UNCHANGED <<ssm_param, last_write>>
          /\ Logged("POST", "/admin/failure-mode/" \o mode)
    /\ UNCHANGED <<config_vars, db_connection, infra_vars, entry_vars, work_vars, health_vars>>

\* POST /admin/failure-mode/{mode}
set_failure_mode ==
    /\ \E mode \in ModeValues :
          /\ IF PARAM_FAILURE_MODE = ""
             THEN /\ resp' = [Response("POST /admin/failure-mode", 500) EXCEPT
                                 !.input = mode, !.put = "not_called"]
                  /\ UNCHANGED <<ssm_param, last_write>>
             ELSE IF ~IamAllows("ssm:PutParameter")
             THEN /\ resp' = [Response("POST /admin/failure-mode", 500) EXCEPT
                                 !.input = mode, !.calls = {"ssm:PutParameter"},
                                 !.denied = TRUE, !.put = "raised"]
                  /\ UNCHANGED <<ssm_param, last_write>>
             ELSE \/ /\ resp' = [Response("POST /admin/failure-mode", 200) EXCEPT
                                    !.input = mode, !.calls = {"ssm:PutParameter"},
                                    !.work = {"body"}, !.put = "returned"]
                     /\ ssm_param' = put_parameter(ssm_param, mode)
                     /\ last_write' = [by |-> "set_failure_mode", value |-> mode]
                  \/ /\ resp' = [Response("POST /admin/failure-mode", 500) EXCEPT
                                    !.input = mode, !.calls = {"ssm:PutParameter"},
                                    !.put = "raised"]
                     /\ UNCHANGED <<ssm_param, last_write>>
          /\ Logged("POST", "/admin/failure-mode/" \o mode)
    /\ UNCHANGED <<config_vars, db_connection, infra_vars, entry_vars, work_vars, health_vars>>

\* The parameter is an external resource: an operator (or another task)
\* overwrites it outside this process.
ExternalWrite ==
    /\ \E v \in ModeValues \ {ssm_param} :
          /\ ssm_param' = v
          /\ last_write' = [by |-> "external", value |-> v]
    /\ UNCHANGED <<config_vars, db_connection, resp, log, infra_vars, entry_vars, work_vars, health_vars>>

NextApp ==
    \/ rejected_request
    \/ root
    \/ health_check
    \/ simulate_work
    \/ database_query
    \/ metrics
    \/ get_failure_mode
    \/ set_failure_mode
    \/ ExternalWrite

\* The entry point has not run.
NotCreated == [created |-> FALSE]

NoStacks == [network |-> NotCreated, data |-> NotCreated, compute |-> NotCreated,
             observability |-> NotCreated, deployment |-> NotCreated,
             fis |-> NotCreated]

NoContext == [envName |-> <<>>, dbEngine |-> <<>>, rotateSecrets |-> <<>>,
              useOneNat |-> <<>>, enableFIS |-> <<>>]

NoOptions == [env_name |-> "", db_engine |-> "", rotate_secrets |-> FALSE,
              use_one_nat |-> FALSE, enable_fis |-> FALSE, enable_break_fix |-> FALSE]

NoWafRequest == [matched |-> {}, action |-> "-"]

NoBlockedRequests == [ALL |-> 0, RateLimitRule |-> 0]

WafAlarmsInsufficient == [WAFBlockedAlarm |-> "INSUFFICIENT_DATA",
                          WAFRateLimitAlarm |-> "INSUFFICIENT_DATA"]

\* No /work request is being traced, no target is registered.
NoWork == [pc |-> "idle", ms |-> 0, first |-> <<>>, requested_ms |-> 0, end_time |-> 0]
NoTarget == [state |-> "unregistered", passed |-> 0, failed |-> 0]

WorkParked ==
    /\ work = NoWork
    /\ now = 0

HealthParked ==
    /\ target = NoTarget
    /\ checks = <<>>

EntryParked ==
    /\ driver = "parked"
    /\ step = "parked"
    /\ context = NoContext
    /\ options = NoOptions
    /\ stacks = NoStacks
    /\ dependencies = {}
    /\ error = ""
    /\ waf_last = NoWafRequest
    /\ blocked = NoBlockedRequests
    /\ waf_alarm_state = WafAlarmsInsufficient

\* The infrastructure variables are not used by the application.
InfraParked ==
    /\ pc = "parked"
    /\ desired_count = 0
    /\ alarm_email = ""
    /\ webhook_url = ""
    /\ db_engine = ""
    /\ target_groups = {}
    /\ wiring = {}
    /\ scaling = {}
    /\ subscriptions = {}
    /\ created_alarms = {}
    /\ alarms = <<>>
    /\ task_count = 0
    /\ running = <<>>
    /\ alarm_state = "OK"

Init == InitApp /\ InfraParked /\ EntryParked /\ WorkParked /\ HealthParked

Next == NextApp

Spec == Init /\ [][Next]_vars

(***************************************************************************)
(* Claims about the application (checked under Spec)                       *)
(***************************************************************************)
Gated == {"/", "/healthz", "/work", "/db", "/metrics"}

\* C1: on GET /, /healthz, /work, /db and /metrics, when the value read by
\* the handler's first check is exactly "return_500" the response is 500 and
\* no normal work (busy loop, DatabaseManager call, normal body) was done;
\* for any other value the failure mode did not force a 500.
C1_Return500Gate ==
    resp.endpoint \in Gated =>
        /\ resp.mode = "return_500" =>
              /\ resp.status = 500
              /\ resp.forced
              /\ resp.work = {}
              /\ resp.db_calls = {}
        /\ resp.mode # "return_500" =>
              /\ ~resp.forced
              /\ resp.work # {}

C1_Witness ==
    /\ resp.endpoint = "/db"
    /\ resp.mode = "return_500"
    /\ resp.status = 500
    /\ db_connection # None

\* C2 as stated: the mode string is compared against four literal values.
\* A GET /db that runs its query passes every comparison the application
\* makes on the mode value.
C2_FourLiterals ==
    (resp.endpoint = "/db" /\ resp.status = 200) => Cardinality(resp.compared) = 4

\* C2 amended: the mode string is compared against two literal values,
\* "return_500" (every gated handler) and "connection_leak" (execute_query);
\* each comparison is true for exactly its literal.
C2_TwoLiterals ==
    /\ resp.compared \subseteq {"return_500", "connection_leak"}
    /\ resp.endpoint \in Gated => "return_500" \in resp.compared
    /\ (resp.endpoint = "/db" /\ resp.status = 200) =>
          resp.compared = {"return_500", "connection_leak"}
    /\ resp.endpoint \in Gated => (resp.forced <=> resp.mode = "return_500")
    /\ (resp.endpoint = "/db" /\ resp.status = 200) =>
          (resp.leak <=> resp.leak_mode = "connection_leak")

C2_Witness ==
    /\ resp.endpoint = "/db"
    /\ resp.status = 200
    /\ resp.leak
    /\ Cardinality(resp.compared) = 2

\* What a GET /db shows and leaves behind, the echoed failure_mode aside.
DbOutcome(q) == <<q.ok, q.conn, q.result>>

DbOutcomesUnder(mode) ==
    { DbOutcome(q) : q \in { x \in execute_query("SELECT 1 as test_column") :
                               x.ok /\ x.leak_mode = mode } }

\* C3 as stated: a GET /db whose execute_query reads mode "connection_leak"
\* ends in a state or with an outcome that the same request could not have
\* ended in under mode "none".
C3_LeakAltersDb ==
    [][ (database_query /\ resp'.status = 200 /\ resp'.leak_mode = "connection_leak")
          => <<TRUE, db_connection', resp'.result>> \notin DbOutcomesUnder("none") ]_vars

\* C4 as stated: the only external call DatabaseManager can trigger is the
\* Secrets Manager read.
C4_OnlySecretsCall ==
    resp.db_calls \subseteq {"secretsmanager:GetSecretValue"}

\* C4 amended: execute_query returns "Query executed successfully" whenever
\* get_connection returns; the external calls DatabaseManager triggers are
\* the Secrets Manager read, made only when DB_SECRET_ARN is non-empty and
\* no connection exists yet, and the SSM GetParameter read made by
\* should_leak_connections, made only when PARAM_FAILURE_MODE is non-empty.
\* No call goes to a database.
C4_StubState ==
    /\ resp.db_calls \subseteq {"secretsmanager:GetSecretValue", "ssm:GetParameter"}
    /\ "ssm:GetParameter" \in resp.db_calls =>
          (PARAM_FAILURE_MODE # "" /\ resp.endpoint = "/db")
    /\ "secretsmanager:GetSecretValue" \in resp.db_calls => DB_SECRET_ARN # ""
    /\ (resp.endpoint = "/db" /\ ~resp.forced) =>
          /\ resp.status = 200 <=> db_connection # None
          /\ resp.status = 200 =>
                /\ resp.result.result = "Query executed successfully"
                /\ resp.result.connection_info = db_connection

C4_StubDatabase ==
    /\ []C4_StubState
    /\ [][ ("secretsmanager:GetSecretValue" \in resp'.db_calls /\ resp' # resp)
             => (DB_SECRET_ARN # "" /\ db_connection = None) ]_vars

C4_Witness ==
    /\ resp.endpoint = "/db"
    /\ resp.status = 200
    /\ resp.db_calls = {"secretsmanager:GetSecretValue", "ssm:GetParameter"}

\* C5 as stated: every SSM action the deployed task performs on the
\* failure-mode parameter is allowed by the task role.
C5_TaskRoleAllowsSsm ==
    deployed => ~resp.denied

(***************************************************************************)
(* The CDK program: ComputeStack, the Alarms construct of                  *)
(* ObservabilityStack, and DeploymentStack, constructed in the order of    *)
(* src/infra/app.py, then deployed.                                        *)
(***************************************************************************)
\* Optional[str] arguments: <<>> is None, <<s>> is the string s.
PyNone == <<>>
Truthy(x) == x # PyNone /\ x[1] # ""
OptionalStrings(s) == {PyNone, <<"">>, <<s>>}

DbEngines == {"aurora-postgres", "postgres", "mysql"}

TargetGroup(id, name) ==
    [id |-> id, name |-> name, port |-> 80, protocol |-> "HTTP", target_type |-> "ip",
     health_check_path |-> "/healthz", healthy_http_codes |-> "200",
     healthy_threshold_count |-> 2, unhealthy_threshold_count |-> 3]

Settings(tg) == [tg EXCEPT !.id = "-", !.name = "-"]

\* ComputeStack._create_application_load_balancer
CreateApplicationLoadBalancer ==
    /\ pc = "ComputeStack.alb"
    /\ target_groups' = {TargetGroup("target_group_1", "golden-path-tg1"),
                         TargetGroup("target_group_2", "golden-path-tg2")}
    /\ wiring' = wiring \cup {[ref |-> "listener.default_action", tg |-> "target_group_1"]}
    /\ pc' = "ComputeStack.service"
    /\ UNCHANGED <<desired_count, alarm_email, webhook_url, db_engine, scaling,
                   subscriptions, created_alarms, alarms, task_count, running,
                   alarm_state, app_vars, entry_vars, work_vars, health_vars>>

\* Mutant: the upper limit is twice the desired count.
ScalableTarget_double(d) ==
    [min_capacity |-> d, max_capacity |-> d * 2,
     policies |-> {[id |-> "CPUScaling", target |-> 70, tg |-> "-"],
                   [id |-> "RequestCountScaling", target |-> 1000, tg |-> "target_group_1"]}]

\* auto_scale_task_count, scale_on_cpu_utilization, scale_on_request_count
ScalableTarget(d) ==
    [min_capacity |-> d, max_capacity |-> d * 4,
     policies |-> {[id |-> "CPUScaling", target |-> 70, tg |-> "-"],
                   [id |-> "RequestCountScaling", target |-> 1000, tg |-> "target_group_1"]}]

\* ComputeStack._create_ecs_service
CreateEcsService ==
    /\ pc = "ComputeStack.service"
    /\ task_count' = desired_count
    /\ scaling' = {ScalableTarget(desired_count)}
    /\ wiring' = wiring \cup
          {[ref |-> "ecs_service.attach_to_application_target_group", tg |-> "target_group_1"]}
          \cup {[ref |-> "scale_on_request_count", tg |-> p.tg] :
                   p \in {x \in ScalableTarget(desired_count).policies : x.tg # "-"}}
    /\ pc' = "Alarms.init"
    /\ UNCHANGED <<desired_count, alarm_email, webhook_url, db_engine, target_groups,
                   subscriptions, created_alarms, alarms, running, alarm_state, app_vars, entry_vars, work_vars, health_vars>>

\* Mutant: a subscription is added for every argument that is not None.
TopicSubscriptions_not_none(email, url) ==
    (IF email # PyNone THEN {[kind |-> "email", endpoint |-> email[1]]} ELSE {})
      \cup (IF url # PyNone THEN {[kind |-> "url", endpoint |-> url[1]]} ELSE {})

\* Alarms.__init__: "if alarm_email:" and "if webhook_url:"
TopicSubscriptions(email, url) ==
    (IF Truthy(email) THEN {[kind |-> "email", endpoint |-> email[1]]} ELSE {})
      \cup (IF Truthy(url) THEN {[kind |-> "url", endpoint |-> url[1]]} ELSE {})

\* Alarms.__init__ up to "self.alarms = []"
AlarmsInit ==
    /\ pc = "Alarms.init"
    /\ subscriptions' = TopicSubscriptions(alarm_email, webhook_url)
    /\ alarms' = <<>>
    /\ pc' = "Alarms.alb"
    /\ UNCHANGED <<desired_count, alarm_email, webhook_url, db_engine, target_groups,
                   wiring, scaling, created_alarms, task_count, running, alarm_state,
                   app_vars, entry_vars, work_vars, health_vars>>

AlarmTopic == "alarm_topic"

\* One cloudwatch.Alarm(...) statement with the two statements that follow it
\* in the source: actions is the set of topics given to add_alarm_action,
\* appended tells whether self.alarms.append(...) follows.
Alarm(id, group, threshold, comparison, periods, datapoints, missing) ==
    [id |-> id, group |-> group, threshold |-> threshold, comparison |-> comparison,
     evaluation_periods |-> periods, datapoints_to_alarm |-> datapoints,
     treat_missing_data |-> missing, actions |-> {AlarmTopic}, appended |-> TRUE]

AlbAlarms ==
    << Alarm("ALB5xxAlarm", "ALB", 1, "GreaterThanThreshold", 1, 1, "notBreaching"),
       Alarm("ALBResponseTimeAlarm", "ALB", 2, "GreaterThanThreshold", 2, 2, "notBreaching"),
       Alarm("ALBUnhealthyTargetsAlarm", "ALB", 0, "GreaterThanThreshold", 2, 2, "notBreaching") >>

EcsAlarms ==
    << Alarm("ECSTaskCountAlarm", "ECS", 1, "LessThanThreshold", 2, 2, "breaching"),
       Alarm("ECSCPUAlarm", "ECS", 80, "GreaterThanThreshold", 3, 2, "notBreaching"),
       Alarm("ECSMemoryAlarm", "ECS", 80, "GreaterThanThreshold", 3, 2, "notBreaching") >>

RdsAlarms ==
    << Alarm("RDSCPUAlarm", "RDS", 80, "GreaterThanThreshold", 3, 2, "notBreaching"),
       Alarm("RDSConnectionsAlarm", "RDS", 80, "GreaterThanThreshold", 2, 2, "notBreaching"),
       Alarm("RDSStorageAlarm", "RDS", 2000000000, "LessThanThreshold", 2, 2, "notBreaching") >>

\* Mutant: the rate-limit alarm is created but not appended to self.alarms.
WafAlarms_not_appended ==
    << Alarm("WAFBlockedAlarm", "WAF", 100, "GreaterThanThreshold", 1, 1, "notBreaching"),
       [Alarm("WAFRateLimitAlarm", "WAF", 10, "GreaterThanThreshold", 1, 1, "notBreaching")
           EXCEPT !.appended = FALSE] >>

WafAlarms ==
    << Alarm("WAFBlockedAlarm", "WAF", 100, "GreaterThanThreshold", 1, 1, "notBreaching"),
       Alarm("WAFRateLimitAlarm", "WAF", 10, "GreaterThanThreshold", 1, 1, "notBreaching") >>

RECURSIVE Appended(_)
Appended(list) ==
    IF list = <<>> THEN <<>>
    ELSE (IF Head(list).appended THEN <<Head(list).id>> ELSE <<>>) \o Appended(Tail(list))

\* One of Alarms._create_alb_alarms, _create_ecs_alarms, _create_rds_alarms,
\* _create_waf_alarms: creates the alarms of "list", in order.
CreateAlarms(at, list, next) ==
    /\ pc = at
    /\ created_alarms' = created_alarms \cup
          {[id |-> list[i].id, group |-> list[i].group, actions |-> list[i].actions] :
              i \in 1..Len(list)}
    /\ alarms' = alarms \o Appended(list)
    /\ pc' = next
    /\ UNCHANGED <<desired_count, alarm_email, webhook_url, db_engine, target_groups,
                   wiring, scaling, subscriptions, task_count, running, alarm_state,
                   app_vars, entry_vars, work_vars, health_vars>>

create_alb_alarms == CreateAlarms("Alarms.alb", AlbAlarms, "Alarms.ecs")
create_ecs_alarms == CreateAlarms("Alarms.ecs", EcsAlarms, "Alarms.rds")
create_rds_alarms == CreateAlarms("Alarms.rds", RdsAlarms, "Alarms.waf")
create_waf_alarms == CreateAlarms("Alarms.waf", WafAlarms, "DeploymentStack")

\* Mutant: blue and green are swapped.
BlueGreenDeploymentConfig_swapped(tg1, tg2) ==
    {[ref |-> "codedeploy.blue_target_group", tg |-> tg2],
     [ref |-> "codedeploy.green_target_group", tg |-> tg1]}

\* DeploymentStack.__init__(target_group_1, target_group_2): EcsBlueGreenDeploymentConfig
BlueGreenDeploymentConfig(tg1, tg2) ==
    {[ref |-> "codedeploy.blue_target_group", tg |-> tg1],
     [ref |-> "codedeploy.green_target_group", tg |-> tg2]}

\* DeploymentStack(..., target_group_1=compute_stack.target_group_1,
\*                      target_group_2=compute_stack.target_group_2)
DeploymentStackInit ==
    /\ pc = "DeploymentStack"
    /\ wiring' = wiring \cup BlueGreenDeploymentConfig("target_group_1", "target_group_2")
    /\ pc' = "deployed"
    /\ UNCHANGED <<desired_count, alarm_email, webhook_url, db_engine, target_groups,
                   scaling, subscriptions, created_alarms, alarms, task_count, running,
                   alarm_state, app_vars, entry_vars, work_vars, health_vars>>

(***************************************************************************)
(* The deployed resources: the autoscaling target drives the service's     *)
(* task count, CloudWatch evaluates the ECS task-count alarm each period.  *)
(***************************************************************************)
TheTarget == CHOOSE t \in scaling : TRUE

\* A scale-out step of one of the declared target-tracking policies.
ScaleOut ==
    /\ pc = "deployed"
    /\ \E p \in TheTarget.policies, n \in (task_count + 1)..TheTarget.max_capacity :
          task_count' = n
    /\ UNCHANGED <<pc, desired_count, alarm_email, webhook_url, db_engine, target_groups,
                   wiring, scaling, subscriptions, created_alarms, alarms, running,
                   alarm_state, app_vars, entry_vars, work_vars, health_vars>>

\* A scale-in step of one of the declared target-tracking policies.
ScaleIn ==
    /\ pc = "deployed"
    /\ \E p \in TheTarget.policies, n \in TheTarget.min_capacity..(task_count - 1) :
          task_count' = n
    /\ UNCHANGED <<pc, desired_count, alarm_email, webhook_url, db_engine, target_groups,
                   wiring, scaling, subscriptions, created_alarms, alarms, running,
                   alarm_state, app_vars, entry_vars, work_vars, health_vars>>

Missing == 0 - 1

Breaching(dp, alarm) ==
    IF dp = Missing THEN alarm.treat_missing_data = "breaching"
    ELSE IF alarm.comparison = "LessThanThreshold" THEN dp < alarm.threshold
    ELSE dp > alarm.threshold

\* State of "alarm" given the datapoints of its last periods, newest last.
Evaluate(alarm, dps) ==
    LET window == { i \in 1..Len(dps) : i > Len(dps) - alarm.evaluation_periods }
        breaching == { i \in window : Breaching(dps[i], alarm) }
    IN IF Cardinality(breaching) >= alarm.datapoints_to_alarm THEN "ALARM" ELSE "OK"

ECSTaskCountAlarm == EcsAlarms[1]

\* A 5-minute period ends: the average RunningTaskCount of the period (or no
\* datapoint) is recorded and the ECS task-count alarm is evaluated.
MetricPeriod ==
    /\ pc = "deployed"
    /\ \E dp \in {Missing} \cup 0..task_count :
          /\ running' = Tail(running) \o <<dp>>
          /\ alarm_state' = Evaluate(ECSTaskCountAlarm, running')
    /\ UNCHANGED <<pc, desired_count, alarm_email, webhook_url, db_engine, target_groups,
                   wiring, scaling, subscriptions, created_alarms, alarms, task_count,
                   app_vars, entry_vars, work_vars, health_vars>>

\* The application variables are not used by the CDK program.
AppParked ==
    /\ deployed = FALSE
    /\ PARAM_FAILURE_MODE = ""
    /\ DB_SECRET_ARN = ""
    /\ allowed_actions = {}
    /\ ssm_param = "none"
    /\ db_connection = None
    /\ resp = Response("-", 0)
    /\ log = NoLog
    /\ last_write = [by |-> "deploy", value |-> "none"]

InfraStart ==
    /\ pc = "ComputeStack.alb"
    /\ desired_count \in 1..MaxDesired
    /\ alarm_email \in OptionalStrings("ops@example.com")
    /\ webhook_url \in OptionalStrings("https://hooks.example.com/alarm")
    /\ db_engine \in DbEngines
    /\ target_groups = {}
    /\ wiring = {}
    /\ scaling = {}
    /\ subscriptions = {}
    /\ created_alarms = {}
    /\ alarms = <<>>
    /\ task_count = 0
    /\ running = <<Missing, Missing>>
    /\ alarm_state = "INSUFFICIENT_DATA"

NextInfra ==
    \/ CreateApplicationLoadBalancer
    \/ CreateEcsService
    \/ AlarmsInit
    \/ create_alb_alarms
    \/ create_ecs_alarms
    \/ create_rds_alarms
    \/ create_waf_alarms
    \/ DeploymentStackInit
    \/ ScaleOut
    \/ ScaleIn
    \/ MetricPeriod

InitInfra == InfraStart /\ AppParked /\ EntryParked /\ WorkParked /\ HealthParked

SpecInfra == InitInfra /\ [][NextInfra]_vars

(***************************************************************************)
(* Claims about the infrastructure (checked under SpecInfra)               *)
(***************************************************************************)
ServiceCreated == pc \notin {"ComputeStack.alb", "ComputeStack.service"}

\* C6: for every desired_count d the autoscaling target has MinCapacity = d
\* and MaxCapacity = 4*d, with a CPU policy at 70 and a request-count policy
\* at 1000, and under any sequence of scale-out and scale-in steps the task
\* count stays within [d, 4*d].
C6_AutoscalingBounds ==
    ServiceCreated =>
        /\ Cardinality(scaling) = 1
        /\ \A t \in scaling :
              /\ t.min_capacity = desired_count
              /\ t.max_capacity = 4 * desired_count
              /\ {<<p.id, p.target>> : p \in t.policies}
                    = {<<"CPUScaling", 70>>, <<"RequestCountScaling", 1000>>}
        /\ desired_count <= task_count
        /\ task_count <= 4 * desired_count

C6_Witness ==
    /\ pc = "deployed"
    /\ desired_count = 2
    /\ task_count = 8

Refs(tg) == {w.ref : w \in {x \in wiring : x.tg = tg}}

\* C7: exactly two target groups with identical settings (port 80, HTTP, IP
\* targets, health check on /healthz); the listener's default action, the
\* service's attachment, the request-count policy and CodeDeploy's blue group
\* refer to target_group_1, and target_group_2 is only the green group.
C7_BlueGreenWiring ==
    /\ pc # "ComputeStack.alb" =>
          /\ Cardinality(target_groups) = 2
          /\ {tg.id : tg \in target_groups} = {"target_group_1", "target_group_2"}
          /\ \A a, b \in target_groups : Settings(a) = Settings(b)
          /\ \A tg \in target_groups :
                /\ tg.port = 80
                /\ tg.protocol = "HTTP"
                /\ tg.target_type = "ip"
                /\ tg.health_check_path = "/healthz"
    /\ Refs("target_group_2") \subseteq {"codedeploy.green_target_group"}
    /\ \A w \in wiring : w.tg \in {"target_group_1", "target_group_2"}
    /\ pc = "deployed" =>
          /\ Refs("target_group_1") = {"listener.default_action",
                                       "ecs_service.attach_to_application_target_group",
                                       "scale_on_request_count",
                                       "codedeploy.blue_target_group"}
          /\ Refs("target_group_2") = {"codedeploy.green_target_group"}

C7_Witness ==
    /\ pc = "deployed"
    /\ Cardinality(wiring) = 5
    /\ [ref |-> "codedeploy.green_target_group", tg |-> "target_group_2"] \in wiring

Listed == {alarms[i] : i \in 1..Len(alarms)}

CountOf(group) == Cardinality({a \in created_alarms : a.group = group})

\* C8: every alarm created by the Alarms construct has an alarm action on the
\* one alarm topic and is in Alarms.alarms, and the construct creates 3 ALB,
\* 3 ECS, 3 RDS and 2 WAF alarms.
C8_AlarmsActionAndListed ==
    /\ \A a \in created_alarms :
          /\ a.actions = {AlarmTopic}
          /\ a.id \in Listed
    /\ Len(alarms) = Cardinality(created_alarms)
    /\ pc \in {"DeploymentStack", "deployed"} =>
          /\ CountOf("ALB") = 3
          /\ CountOf("ECS") = 3
          /\ CountOf("RDS") = 3
          /\ CountOf("WAF") = 2
          /\ Len(alarms) = 11

C8_Witness ==
    /\ pc = "DeploymentStack"
    /\ Cardinality(created_alarms) = 11
    /\ alarms[11] = "WAFRateLimitAlarm"

TopicConfigured == pc \notin {"ComputeStack.alb", "ComputeStack.service", "Alarms.init"}

\* C9: the alarm topic has an email subscription iff alarm_email is non-empty
\* and a URL subscription iff webhook_url is non-empty; with both empty or
\* None it has no subscription.
C9_Subscriptions ==
    TopicConfigured =>
        /\ (\E x \in subscriptions : x.kind = "email")
              <=> (alarm_email # PyNone /\ alarm_email # <<"">>)
        /\ (\E x \in subscriptions : x.kind = "url")
              <=> (webhook_url # PyNone /\ webhook_url # <<"">>)
        /\ \A x \in subscriptions :
              /\ x.kind \in {"email", "url"}
              /\ x.kind = "email" => <<x.endpoint>> = alarm_email
              /\ x.kind = "url" => <<x.endpoint>> = webhook_url
        /\ (alarm_email \in {PyNone, <<"">>} /\ webhook_url \in {PyNone, <<"">>})
              => subscriptions = {}

C9_Witness ==
    /\ TopicConfigured
    /\ alarm_email = <<"">>
    /\ webhook_url = <<"https://hooks.example.com/alarm">>
    /\ Cardinality(subscriptions) = 1

\* C10 as stated: whenever the average RunningTaskCount was below the
\* service's desired_count for the last two consecutive periods, the ECS
\* task-count alarm is in ALARM.
C10_AlarmBelowDesired ==
    (pc = "deployed"
       /\ \A i \in 1..2 : running[i] # Missing /\ running[i] < desired_count)
      => alarm_state = "ALARM"

(***************************************************************************)
(* LogMetrics: the metric filters over the application log group           *)
(* (src/infra/constructs/log_metrics.py).  Each filter is the test it      *)
(* applies to one JSON log record.                                         *)
(***************************************************************************)
Exists(record, key) == key \in record.keys

ErrorTypeMetricFilter(record) == Exists(record, "errorType")

Status5xxMetricFilter(record) == Exists(record, "status") /\ record.status >= 500

LatencyMetricFilter(record) == Exists(record, "latencyMs")

RequestCountMetricFilter(record) == Exists(record, "requestId")

\* C11: every processed request logs requestId, status and latencyMs (so the
\* request-count and latency filters match it and the logged status is the
\* response's); errorType is logged iff status >= 400, it is "server_error"
\* exactly when status >= 500 and "client_error" exactly when 400 <= status
\* <= 499; hence the error filter matches exactly the records with status
\* >= 400 and the 5xx filter exactly those labelled server_error.
C11_LogRecordMatchesFilters ==
    resp.endpoint # "-" =>
        /\ {"requestId", "status", "latencyMs"} \subseteq log.keys
        /\ log.status = resp.status
        /\ log.latencyMs >= 0
        /\ RequestCountMetricFilter(log) /\ LatencyMetricFilter(log)
        /\ ("errorType" \in log.keys) <=> (log.status >= 400)
        /\ (log.errorType = "server_error") <=> (log.status >= 500)
        /\ (log.errorType = "client_error") <=> (log.status >= 400 /\ log.status <= 499)
        /\ ErrorTypeMetricFilter(log) <=> (log.status >= 400)
        /\ Status5xxMetricFilter(log) <=> (log.errorType = "server_error")

C11_Witness ==
    /\ resp.endpoint = "(no handler)"
    /\ log.status = 422
    /\ log.errorType = "client_error"
    /\ ErrorTypeMetricFilter(log) /\ ~Status5xxMetricFilter(log)

\* C18: get_current_mode never raises (GET /admin/failure-mode, which returns
\* its result, always answers 200); with PARAM_FAILURE_MODE empty it returns
\* "none" and SSM is not called; when the SSM read raises it returns "none";
\* otherwise it returns the stored value unchanged.  Hence a request whose
\* read did not reach SSM or failed is never forced to 500.
C18_ReadOutcomes ==
    /\ resp.endpoint = "/admin/failure-mode" =>
          /\ resp.status = 200
          /\ (PARAM_FAILURE_MODE = "") <=> (resp.ssm = "not_called")
          /\ resp.ssm = "not_called" => resp.failure_mode = "none" /\ resp.calls = {}
          /\ resp.ssm = "raised" => resp.failure_mode = "none"
    /\ (resp.endpoint \in Gated /\ resp.ssm \in {"not_called", "raised"})
          => (~resp.forced /\ resp.mode = "none")

C18_GetCurrentModeTotal ==
    /\ []C18_ReadOutcomes
    /\ [][(resp' # resp /\ resp'.endpoint = "/admin/failure-mode"
              /\ resp'.ssm = "returned")
            => resp'.failure_mode = ssm_param]_vars

C18_Witness ==
    /\ resp.endpoint \in Gated
    /\ resp.ssm = "raised"
    /\ ssm_param = "return_500"
    /\ last_write.by = "deploy" \/ last_write.by = "external"
    /\ ~resp.forced
    /\ resp.status = 200

\* C19: the admin handlers never test the failure mode: GET
\* /admin/failure-mode answers 200 with the mode it read, also when the
\* parameter holds "return_500", and POST /admin/failure-mode/{mode} is never
\* forced to 500; and while the last write of the parameter is a successful
\* POST .../none, no request to /, /healthz, /work, /db or /metrics is forced
\* to 500 (a response of a gated handler seen in such a state was produced
\* after that POST: the POST itself replaced the response before it).
C19_AdminState ==
    /\ resp.endpoint = "/admin/failure-mode" =>
          resp.status = 200 /\ ~resp.forced /\ resp.compared = {}
    /\ resp.endpoint = "POST /admin/failure-mode" =>
          ~resp.forced /\ resp.compared = {} /\ resp.mode = "-"
    /\ (resp.endpoint \in Gated
            /\ last_write = [by |-> "set_failure_mode", value |-> "none"])
          => ~resp.forced

C19_AdminNotGated ==
    /\ []C19_AdminState
    /\ [][(resp' # resp /\ resp'.endpoint = "/admin/failure-mode"
              /\ ssm_param = "return_500" /\ resp'.ssm = "returned")
            => (resp'.status = 200 /\ resp'.failure_mode = "return_500")]_vars

C19_Witness ==
    /\ last_write = [by |-> "set_failure_mode", value |-> "none"]
    /\ resp.endpoint \in Gated
    /\ resp.ssm = "returned"
    /\ resp.status = 200

\* C20: a POST /admin/failure-mode/{mode} that answers 200 has stored exactly
\* the string it was given, whatever it is; a later GET /admin/failure-mode
\* whose SSM read succeeds, with no other write in between, returns that
\* string; and a second successful POST of the same mode leaves the
\* parameter, the connection and the configuration as the first left them.
C20_RoundTripState ==
    /\ (resp.endpoint = "POST /admin/failure-mode" /\ resp.status = 200
            /\ last_write.by = "set_failure_mode")
          => (last_write.value = resp.input /\ ssm_param = resp.input)
    /\ (resp.endpoint = "/admin/failure-mode" /\ resp.ssm = "returned"
            /\ last_write.by = "set_failure_mode")
          => resp.failure_mode = last_write.value

C20_SetGetRoundTrip ==
    /\ []C20_RoundTripState
    /\ [][(resp'.endpoint = "POST /admin/failure-mode" /\ resp'.status = 200
              /\ last_write = [by |-> "set_failure_mode", value |-> resp'.input]
              /\ set_failure_mode)
            => (ssm_param' = ssm_param /\ last_write' = last_write
                  /\ db_connection' = db_connection
                  /\ config_vars' = config_vars)]_vars

C20_Witness ==
    /\ resp.endpoint = "/admin/failure-mode"
    /\ resp.ssm = "returned"
    /\ last_write = [by |-> "set_failure_mode", value |-> "cpu_burn"]
    /\ resp.failure_mode = "cpu_burn"

(***************************************************************************)
(* SpecEntry: the CDK entry point (src/infra/app.py) reading its context   *)
(* and constructing the stacks in order, or the same stacks constructed    *)
(* directly with keyword arguments (as src/infra/tests do), and the web    *)
(* ACL evaluating requests once everything is constructed.                 *)
(***************************************************************************)
MaxBlocked == 2       \* blocked requests counted per period

EnvNames == {"dev", "prod"}
AllDbEngines == DbEngines \cup {"oracle"}

\* What app.node.try_get_context(key) returns: None, or the supplied value.
JsonBooleans == {PyNone, <<TRUE>>, <<FALSE>>}

Contexts ==
    [envName : {PyNone, <<"prod">>},
     dbEngine : {PyNone} \cup {<<e>> : e \in AllDbEngines},
     rotateSecrets : JsonBooleans,
     useOneNat : JsonBooleans,
     enableFIS : JsonBooleans]

\* Python's `x or default` for a string and for a boolean x.
OrString(x, default) == IF x # PyNone /\ x[1] # "" THEN x[1] ELSE default
OrBoolean(x, default) == IF x # PyNone /\ x[1] THEN x[1] ELSE default

\* app.py:13-25.  enable_break_fix is not read: ComputeStack is constructed
\* without it and uses its default.
ContextValues(ctx) ==
    [env_name |-> OrString(ctx.envName, "dev"),
     db_engine |-> OrString(ctx.dbEngine, "aurora-postgres"),
     rotate_secrets |-> OrBoolean(ctx.rotateSecrets, FALSE),
     use_one_nat |-> OrBoolean(ctx.useOneNat, TRUE),
     enable_fis |-> OrBoolean(ctx.enableFIS, TRUE),
     enable_break_fix |-> TRUE]

\* Keyword arguments of a direct construction.
DirectOptions ==
    [env_name : EnvNames, db_engine : AllDbEngines, rotate_secrets : BOOLEAN,
     use_one_nat : BOOLEAN, enable_fis : {TRUE}, enable_break_fix : BOOLEAN]

(***************************************************************************)
(* The stacks                                                              *)
(***************************************************************************)
HasAttr(obj, name) == name \in obj.attrs

NetworkStack(env_name, use_one_nat) ==
    [created |-> TRUE, attrs |-> {"env_name", "vpc"},
     nat_gateways |-> IF use_one_nat THEN 1 ELSE 2]

\* Mutant: the parameter is named per environment.
FailureModeParameter_per_env(env_name) ==
    [parameter_name |-> "/golden/" \o env_name \o "/failure_mode",
     string_value |-> "none"]

FailureModeParameter(env_name) ==
    [parameter_name |-> "/golden/failure_mode", string_value |-> "none"]

\* Mutant: an unknown engine falls back to the Aurora cluster.
CreateDatabase_fallback(engine_name) ==
    IF engine_name = "postgres"
    THEN [raised |-> "", databases |-> {[id |-> "PostgreSQLInstance",
             construct |-> "DatabaseInstance", engine |-> "postgres",
             attrs |-> {"instance_identifier", "instance_endpoint"}]}]
    ELSE IF engine_name = "mysql"
    THEN [raised |-> "", databases |-> {[id |-> "MySQLInstance",
             construct |-> "DatabaseInstance", engine |-> "mysql",
             attrs |-> {"instance_identifier", "instance_endpoint"}]}]
    ELSE [raised |-> "", databases |-> {[id |-> "AuroraCluster",
             construct |-> "DatabaseCluster", engine |-> "aurora-postgres",
             attrs |-> {"cluster_identifier", "cluster_endpoint"}]}]

\* data_stack.py:69-77 and the three _create_* methods.
CreateDatabase(engine_name) ==
    IF engine_name = "aurora-postgres"
    THEN [raised |-> "", databases |-> {[id |-> "AuroraCluster",
             construct |-> "DatabaseCluster", engine |-> "aurora-postgres",
             attrs |-> {"cluster_identifier", "cluster_endpoint"}]}]
    ELSE IF engine_name = "postgres"
    THEN [raised |-> "", databases |-> {[id |-> "PostgreSQLInstance",
             construct |-> "DatabaseInstance", engine |-> "postgres",
             attrs |-> {"instance_identifier", "instance_endpoint"}]}]
    ELSE IF engine_name = "mysql"
    THEN [raised |-> "", databases |-> {[id |-> "MySQLInstance",
             construct |-> "DatabaseInstance", engine |-> "mysql",
             attrs |-> {"instance_identifier", "instance_endpoint"}]}]
    ELSE [raised |-> "ValueError", databases |-> {}]

DataStackOutputs == {"DatabaseEndpoint", "DatabaseSecretArn", "DatabaseSecurityGroupId",
                     "FailureModeParameterName"}

\* DataStack.__init__: the subnet group, security group and secret exist
\* before the engine is looked at; a raise ends the constructor there.
DataStack(env_name, engine_name, rotate_secrets) ==
    LET db == CreateDatabase(engine_name)
        first == {"DBSubnetGroup", "DatabaseSecurityGroup", "DatabaseSecret"}
    IN IF db.raised # ""
       THEN [created |-> TRUE, db_engine |-> engine_name, raised |-> db.raised,
             resources |-> first, databases |-> {}, rotation |-> FALSE,
             parameters |-> {}, outputs |-> {},
             attrs |-> {"env_name", "vpc", "db_subnet_group", "db_security_group",
                        "db_secret"}]
       ELSE [created |-> TRUE, db_engine |-> engine_name, raised |-> "",
             resources |-> first, databases |-> db.databases,
             rotation |-> rotate_secrets,
             parameters |-> {FailureModeParameter(env_name)},
             outputs |-> DataStackOutputs,
             attrs |-> {"env_name", "vpc", "db_subnet_group", "db_security_group",
                        "db_secret", "database", "failure_mode_parameter"}]

(***************************************************************************)
(* WafWebAcl: the declared web ACL and how AWS WAF evaluates it            *)
(***************************************************************************)
\* Mutant: the rate-based rule blocks.
WafRules_rate_blocks ==
    << [name |-> "AWSManagedRulesCommonRuleSet", priority |-> 1,
        statement |-> "managed_rule_group", override_action |-> "count", action |-> "-"],
       [name |-> "AWSManagedRulesKnownBadInputsRuleSet", priority |-> 2,
        statement |-> "managed_rule_group", override_action |-> "count", action |-> "-"],
       [name |-> "AWSManagedRulesAmazonIpReputationList", priority |-> 3,
        statement |-> "managed_rule_group", override_action |-> "count", action |-> "-"],
       [name |-> "RateLimitRule", priority |-> 4,
        statement |-> "rate_based", override_action |-> "-", action |-> "block"] >>

WafRules ==
    << [name |-> "AWSManagedRulesCommonRuleSet", priority |-> 1,
        statement |-> "managed_rule_group", override_action |-> "count", action |-> "-"],
       [name |-> "AWSManagedRulesKnownBadInputsRuleSet", priority |-> 2,
        statement |-> "managed_rule_group", override_action |-> "count", action |-> "-"],
       [name |-> "AWSManagedRulesAmazonIpReputationList", priority |-> 3,
        statement |-> "managed_rule_group", override_action |-> "count", action |-> "-"],
       [name |-> "RateLimitRule", priority |-> 4,
        statement |-> "rate_based", override_action |-> "-", action |-> "count"] >>

WafWebAcl(env_name) ==
    [name |-> "golden-path-waf-" \o env_name, default_action |-> "allow",
     rules |-> WafRules]

RuleNames(acl) == { acl.rules[i].name : i \in 1..Len(acl.rules) }

\* What a matching rule does: a managed rule group blocks unless its
\* override action is count; any other rule does what its action says.
RuleAction(rule) ==
    IF rule.statement = "managed_rule_group"
    THEN IF rule.override_action = "count" THEN "count" ELSE "block"
    ELSE rule.action

\* Rules are evaluated in ascending priority; the first matching rule whose
\* action terminates (anything but count) decides, else the default action.
WafEvaluate(acl, matched) ==
    LET terminating == { i \in 1..Len(acl.rules) :
                            /\ acl.rules[i].name \in matched
                            /\ RuleAction(acl.rules[i]) # "count" }
        first == CHOOSE i \in terminating :
                    \A j \in terminating : acl.rules[i].priority <= acl.rules[j].priority
    IN IF terminating = {}
       THEN [action |-> acl.default_action, rule |-> "Default_Action"]
       ELSE [action |-> RuleAction(acl.rules[first]), rule |-> acl.rules[first].name]

\* The Rule dimension of the BlockedRequests metric each WAF alarm watches.
WafAlarmRule == [WAFBlockedAlarm |-> "ALL", WAFRateLimitAlarm |-> "RateLimitRule"]

(***************************************************************************)
(* ComputeStack, ObservabilityStack, DeploymentStack, FISStack             *)
(***************************************************************************)
\* The ARN of the SSM parameter of that name (names start with "/").
ParameterArn(parameter_name) == "arn:aws:ssm:region:account:parameter" \o parameter_name

SsmStatements(enable_break_fix) ==
    IF enable_break_fix
    THEN {[effect |-> "Allow", actions |-> {"ssm:GetParameter"},
           resources |-> {"arn:aws:ssm:region:account:parameter/golden/failure_mode"}]}
    ELSE {}

ComputeStackAttrs ==
    {"env_name", "vpc", "database", "db_secret", "kms_key", "logging_bucket",
     "waf_web_acl", "ecr_repository", "cluster", "log_group", "alb_security_group",
     "ecs_security_group", "alb", "target_group_1", "target_group_2", "listener",
     "task_execution_role", "task_role", "task_definition", "app_container",
     "xray_container", "ecs_service", "scaling_target"}

ComputeStack(env_name, enable_break_fix) ==
    [created |-> TRUE, attrs |-> ComputeStackAttrs,
     enable_break_fix |-> enable_break_fix,
     waf_web_acl |-> WafWebAcl(env_name),
     ssm_statements |-> SsmStatements(enable_break_fix),
     task_role_actions |-> TaskRolePolicy(enable_break_fix),
     environment |-> ContainerEnvironment(enable_break_fix)]

AlarmIds(list) == [i \in 1..Len(list) |-> list[i].id]

ObservabilityStackAttrs ==
    {"env_name", "alb", "ecs_service", "database", "waf_web_acl", "log_group",
     "log_metrics", "dashboards", "alarms"}

ObservabilityStack ==
    [created |-> TRUE, attrs |-> ObservabilityStackAttrs,
     alarms |-> AlarmIds(AlbAlarms \o EcsAlarms \o RdsAlarms \o WafAlarms)]

DeploymentStackAttrs ==
    {"env_name", "ecs_service", "alb", "target_group_1", "target_group_2"}

DeploymentStack == [created |-> TRUE, attrs |-> DeploymentStackAttrs]

\* FISStack.__init__: one experiment template per entry of self.experiments,
\* each with the stop conditions built from stop_condition_alarms.
StopConditions(stop_condition_alarms) ==
    [i \in 1..Len(stop_condition_alarms) |->
        [source |-> "aws:cloudwatch:alarm", value |-> stop_condition_alarms[i]]]

FISStack(database, stop_condition_alarms) ==
    LET names == {"ecs_task_termination", "ecs_cpu_stress", "network_latency"}
                   \cup (IF HasAttr(database, "cluster_identifier")
                         THEN {"aurora_failover"} ELSE {})
    IN [created |-> TRUE, stop_condition_alarms |-> stop_condition_alarms,
        experiments |-> [n \in names |->
            [stop_conditions |-> StopConditions(stop_condition_alarms)]]]

\* a.add_dependency(b) for the pairs of app.py:109 and 112-115.
FisDependency == {<<"fis", "observability">>}
StackDependencies ==
    {<<"data", "network">>, <<"compute", "data">>, <<"observability", "compute">>,
     <<"deployment", "compute">>}

(***************************************************************************)
(* Steps of the entry point                                                *)
(***************************************************************************)
\* app.py:13-25
read_context ==
    /\ driver = "app.py"
    /\ step = "context"
    /\ options' = ContextValues(context)
    /\ step' = "NetworkStack"
    /\ UNCHANGED <<driver, context, stacks, dependencies, error, waf_last, blocked,
                   waf_alarm_state, app_vars, infra_vars, work_vars, health_vars>>

\* app.py:33-39
network_stack ==
    /\ step = "NetworkStack"
    /\ stacks' = [stacks EXCEPT
                     !.network = NetworkStack(options.env_name, options.use_one_nat)]
    /\ step' = "DataStack"
    /\ UNCHANGED <<driver, context, options, dependencies, error, waf_last, blocked,
                   waf_alarm_state, app_vars, infra_vars, work_vars, health_vars>>

\* app.py:42-52.  An exception of the constructor ends the program.
data_stack ==
    /\ step = "DataStack"
    /\ LET d == DataStack(options.env_name, options.db_engine, options.rotate_secrets)
       IN /\ stacks' = [stacks EXCEPT !.data = d]
          /\ IF d.raised # ""
             THEN step' = "raised" /\ error' = d.raised
             ELSE step' = "ComputeStack" /\ UNCHANGED error
    /\ UNCHANGED <<driver, context, options, dependencies, waf_last, blocked,
                   waf_alarm_state, app_vars, infra_vars, work_vars, health_vars>>

\* app.py:55-67
compute_stack ==
    /\ step = "ComputeStack"
    /\ stacks' = [stacks EXCEPT
                     !.compute = ComputeStack(options.env_name, options.enable_break_fix)]
    /\ step' = "ObservabilityStack"
    /\ UNCHANGED <<driver, context, options, dependencies, error, waf_last, blocked,
                   waf_alarm_state, app_vars, infra_vars, work_vars, health_vars>>

\* app.py:70-81
observability_stack ==
    /\ step = "ObservabilityStack"
    /\ stacks' = [stacks EXCEPT !.observability = ObservabilityStack]
    /\ step' = "DeploymentStack"
    /\ UNCHANGED <<driver, context, options, dependencies, error, waf_last, blocked,
                   waf_alarm_state, app_vars, infra_vars, work_vars, health_vars>>

\* app.py:84-93
deployment_stack ==
    /\ step = "DeploymentStack"
    /\ stacks' = [stacks EXCEPT !.deployment = DeploymentStack]
    /\ step' = "FISStack"
    /\ UNCHANGED <<driver, context, options, dependencies, error, waf_last, blocked,
                   waf_alarm_state, app_vars, infra_vars, work_vars, health_vars>>

TheDatabase == CHOOSE d \in stacks.data.databases : TRUE

\* app.py:95-117: the optional FIS stack, the explicit dependencies and
\* synth.  The keyword arguments of FISStack(...) are evaluated first; reading
\* an attribute the stack object does not have raises AttributeError.
fis_and_dependencies ==
    /\ driver = "app.py"
    /\ step = "FISStack"
    /\ IF options.enable_fis
       THEN IF /\ HasAttr(stacks.compute, "ecs_cluster")
               /\ HasAttr(stacks.observability, "critical_alarms")
            THEN /\ stacks' = [stacks EXCEPT
                       !.fis = FISStack(TheDatabase, stacks.observability.critical_alarms)]
                 /\ dependencies' = FisDependency \cup StackDependencies
                 /\ step' = "synthesized"
                 /\ UNCHANGED error
            ELSE /\ error' = "AttributeError"
                 /\ step' = "raised"
                 /\ UNCHANGED <<stacks, dependencies>>
       ELSE /\ dependencies' = StackDependencies
            /\ step' = "synthesized"
            /\ UNCHANGED <<stacks, error>>
    /\ UNCHANGED <<driver, context, options, waf_last, blocked, waf_alarm_state,
                   app_vars, infra_vars, work_vars, health_vars>>

\* FISStack constructed directly with the cluster of the compute stack and a
\* list of alarms of the observability stack.
direct_fis ==
    /\ driver = "direct"
    /\ step = "FISStack"
    /\ \E n \in 0..2 :
          stacks' = [stacks EXCEPT
              !.fis = FISStack(TheDatabase, SubSeq(stacks.observability.alarms, 1, n))]
    /\ step' = "constructed"
    /\ UNCHANGED <<driver, context, options, dependencies, error, waf_last, blocked,
                   waf_alarm_state, app_vars, infra_vars, work_vars, health_vars>>

(***************************************************************************)
(* The web ACL in front of the load balancer, once deployed                *)
(***************************************************************************)
Deployable == step \in {"constructed", "synthesized"}

\* One request: matched is the set of rules whose statement it matches.
WafRequest ==
    /\ Deployable
    /\ \E matched \in SUBSET RuleNames(stacks.compute.waf_web_acl) :
          LET d == WafEvaluate(stacks.compute.waf_web_acl, matched)
          IN /\ d.action = "block" => blocked.ALL < MaxBlocked
             /\ waf_last' = [matched |-> matched, action |-> d.action]
             /\ blocked' = IF d.action = "block"
                           THEN [ALL |-> blocked.ALL + 1,
                                 RateLimitRule |-> blocked.RateLimitRule +
                                     (IF d.rule = "RateLimitRule" THEN 1 ELSE 0)]
                           ELSE blocked
    /\ UNCHANGED <<driver, step, context, options, stacks, dependencies, error,
                   waf_alarm_state, app_vars, infra_vars, work_vars, health_vars>>

\* A 5-minute period ends: each WAF alarm is evaluated on the Sum of
\* BlockedRequests for its Rule dimension (no datapoint is published for a
\* period without blocked requests, or a 0), and a new period starts.
WafDatapoints(rule) == IF blocked[rule] = 0 THEN {Missing, 0} ELSE {blocked[rule]}

WafPeriod ==
    /\ Deployable
    /\ \E all \in WafDatapoints(WafAlarmRule.WAFBlockedAlarm),
          rate \in WafDatapoints(WafAlarmRule.WAFRateLimitAlarm) :
          waf_alarm_state' = [WAFBlockedAlarm |-> Evaluate(WafAlarms[1], <<all>>),
                              WAFRateLimitAlarm |-> Evaluate(WafAlarms[2], <<rate>>)]
    /\ blocked' = NoBlockedRequests
    /\ UNCHANGED <<driver, step, context, options, stacks, dependencies, error,
                   waf_last, app_vars, infra_vars, work_vars, health_vars>>

NextEntry ==
    \/ read_context
    \/ network_stack
    \/ data_stack
    \/ compute_stack
    \/ observability_stack
    \/ deployment_stack
    \/ fis_and_dependencies
    \/ direct_fis
    \/ WafRequest
    \/ WafPeriod

EntryStart ==
    /\ \/ /\ driver = "app.py"
          /\ step = "context"
          /\ context \in Contexts
          /\ options = NoOptions
       \/ /\ driver = "direct"
          /\ step = "NetworkStack"
          /\ context = NoContext
          /\ options \in DirectOptions
    /\ stacks = NoStacks
    /\ dependencies = {}
    /\ error = ""
    /\ waf_last = NoWafRequest
    /\ blocked = NoBlockedRequests
    /\ waf_alarm_state = WafAlarmsInsufficient

InitEntry == EntryStart /\ AppParked /\ InfraParked /\ WorkParked /\ HealthParked

SpecEntry == InitEntry /\ [][NextEntry]_vars

\* C12: the web ACL never blocks: its default action is allow, it has four
\* rules with the distinct priorities 1, 2, 3, 4, each of which only counts
\* a matching request; so whatever requests arrive every one is allowed,
\* BlockedRequests stays 0 for both Rule dimensions, and neither the
\* blocked-requests alarm (> 100) nor the rate-limit alarm (> 10) is in ALARM.
C12_WafNeverBlocks ==
    stacks.compute.created =>
        LET acl == stacks.compute.waf_web_acl
        IN /\ acl.default_action = "allow"
           /\ Len(acl.rules) = 4
           /\ \A p \in 1..4 : Cardinality({i \in 1..4 : acl.rules[i].priority = p}) = 1
           /\ \A i \in 1..4 : RuleAction(acl.rules[i]) = "count"
           /\ waf_last.action \in {"-", "allow"}
           /\ blocked.ALL = 0 /\ blocked.RateLimitRule = 0
           /\ WafAlarms[1].threshold = 100 /\ WafAlarms[2].threshold = 10
           /\ waf_alarm_state.WAFBlockedAlarm # "ALARM"
           /\ waf_alarm_state.WAFRateLimitAlarm # "ALARM"

C12_Witness ==
    /\ stacks.compute.created
    /\ waf_last.matched = RuleNames(stacks.compute.waf_web_acl)
    /\ Cardinality(waf_last.matched) = 4
    /\ waf_last.action = "allow"
    /\ waf_alarm_state.WAFBlockedAlarm = "OK"
    /\ waf_alarm_state.WAFRateLimitAlarm = "OK"

\* C13: every experiment template of FISStack (the three fixed ones, and
\* aurora_failover exactly when the database is a cluster) has one
\* CloudWatch-alarm stop condition per alarm of stop_condition_alarms, in
\* order; and once the entry point is past its FIS block with FIS enabled,
\* the FIS stack exists and its stop_condition_alarms are alarms of the
\* observability stack, at least one.
InSeq(x, list) == \E i \in 1..Len(list) : list[i] = x

C13_FisStopConditions ==
    /\ stacks.fis.created =>
          LET f == stacks.fis
          IN /\ DOMAIN f.experiments =
                   {"ecs_task_termination", "ecs_cpu_stress", "network_latency"}
                     \cup (IF TheDatabase.construct = "DatabaseCluster"
                           THEN {"aurora_failover"} ELSE {})
             /\ \A n \in DOMAIN f.experiments :
                   /\ Len(f.experiments[n].stop_conditions) = Len(f.stop_condition_alarms)
                   /\ \A i \in 1..Len(f.stop_condition_alarms) :
                         f.experiments[n].stop_conditions[i] =
                            [source |-> "aws:cloudwatch:alarm",
                             value |-> f.stop_condition_alarms[i]]
    /\ (driver = "app.py" /\ stacks.deployment.created /\ step # "FISStack"
            /\ options.enable_fis)
          => /\ stacks.fis.created
             /\ stacks.fis.stop_condition_alarms # <<>>
             /\ \A i \in 1..Len(stacks.fis.stop_condition_alarms) :
                   InSeq(stacks.fis.stop_condition_alarms[i], stacks.observability.alarms)

\* C14: each boolean option is the supplied context value, the default only
\* when the key is absent: use_one_nat (default true) gives 1 NAT gateway
\* when true and 2 when false; enable_fis (default true) false leaves the
\* FIS stack out; rotate_secrets (default false) true enables rotation.
Supplied(x, default) == IF x = PyNone THEN default ELSE x[1]

C15_OneDatabaseOrValueError ==
    stacks.data.created =>
        LET d == stacks.data
        IN IF d.db_engine \in {"aurora-postgres", "postgres", "mysql"}
           THEN /\ d.raised = ""
                /\ Cardinality(d.databases) = 1
                /\ \A db \in d.databases :
                      /\ db.engine = d.db_engine
                      /\ db.construct = IF d.db_engine = "aurora-postgres"
                                        THEN "DatabaseCluster" ELSE "DatabaseInstance"
           ELSE /\ d.raised = "ValueError"
                /\ error = "ValueError" /\ step = "raised"
                /\ d.databases = {} /\ d.parameters = {} /\ d.outputs = {}
                /\ ~stacks.compute.created

C15_Witness ==
    /\ stacks.data.created
    /\ stacks.data.db_engine = "oracle"
    /\ stacks.data.raised = "ValueError"
    /\ stacks.data.resources # {}
    /\ step = "raised"

\* C16: once the entry point has ended its run past the stack
\* constructions, the declared dependencies contain Data -> Network,
\* Compute -> Data, Observability -> Compute, Deployment -> Compute, and
\* FIS -> Observability when the FIS stack exists, and no stack depends,
\* directly or through others, on itself.
StackNames == {"network", "data", "compute", "observability", "deployment", "fis"}

RECURSIVE Reach(_, _, _)
Reach(deps, from, n) ==
    IF n = 0 THEN {from}
    ELSE LET r == Reach(deps, from, n - 1)
         IN r \cup { b \in StackNames : \E a \in r : <<a, b>> \in deps }

DependsOn(deps, a, b) == \E c \in StackNames : <<a, c>> \in deps /\ b \in Reach(deps, c, 5)

C16_DependencyOrder ==
    (driver = "app.py" /\ stacks.deployment.created /\ step # "FISStack") =>
        /\ DependsOn(dependencies, "data", "network")
        /\ DependsOn(dependencies, "compute", "data")
        /\ DependsOn(dependencies, "observability", "compute")
        /\ DependsOn(dependencies, "deployment", "compute")
        /\ stacks.fis.created => DependsOn(dependencies, "fis", "observability")
        /\ \A s \in StackNames : ~DependsOn(dependencies, s, s)

C21_FailClosedState ==
    resp.endpoint = "POST /admin/failure-mode" =>
        /\ resp.status \in {200, 500}
        /\ PARAM_FAILURE_MODE = "" =>
              (resp.status = 500 /\ resp.put = "not_called" /\ resp.calls = {})
        /\ resp.put = "not_called" => PARAM_FAILURE_MODE = ""
        /\ resp.put = "raised" => resp.status = 500
        /\ resp.status = 200 => resp.put = "returned"

C21_SetFailureModeFailsClosed ==
    /\ []C21_FailClosedState
    /\ [][(resp'.endpoint = "POST /admin/failure-mode" /\ resp'.status = 500
              /\ set_failure_mode)
            => (ssm_param' = ssm_param /\ last_write' = last_write)]_vars

C21_Witness ==
    /\ resp.endpoint = "POST /admin/failure-mode"
    /\ resp.status = 500
    /\ resp.put = "raised"
    /\ ~resp.denied
    /\ resp.input = "return_500"
    /\ ssm_param = "none"
    /\ last_write.by = "deploy"

\* C24: the database connection is a process-wide singleton: the credentials
\* are fetched (the Secrets Manager read of get_db_credentials) only by a
\* request that finds db_connection None; once db_connection is not None no
\* step resets it or changes its host or connection_time, so it is assigned
\* at most once; and a request that answers with a connection answers with
\* the stored one.
C24_ConnectionShown ==
    /\ (resp.endpoint = "/metrics" /\ resp.status = 200)
          => resp.database_connection = db_connection
    /\ (resp.endpoint = "/db" /\ resp.status = 200)
          => resp.result.connection_info = db_connection
    /\ Cardinality(db_connection) <= 1

C24_ConnectionSingleton ==
    /\ []C24_ConnectionShown
    /\ [][db_connection # None => db_connection' = db_connection]_vars
    /\ [][ ("secretsmanager:GetSecretValue" \in resp'.db_calls
              /\ db_connection # None
              /\ (database_query \/ metrics)) => FALSE ]_vars

\* A later request (no Secrets Manager read although DB_SECRET_ARN is set)
\* answers with the connection made at time 0.
C24_Witness ==
    /\ resp.endpoint = "/metrics"
    /\ resp.status = 200
    /\ resp.db_calls = {}
    /\ DB_SECRET_ARN # ""
    /\ db_connection # None
    /\ \A c \in db_connection : c.connection_time = 0 /\ c.host = "db.cluster.internal"

(***************************************************************************)
(* GET /work statement by statement (app.py:241-272).  The clock is        *)
(* counted in ticks of 1/TicksPerMs millisecond from the reading the       *)
(* request takes as start_time, so start_time is tick 0 and a reading of   *)
(* time.time() - start_time is now.  The clock only moves forward.         *)
(***************************************************************************)
TicksPerMs == 2       \* clock readings per millisecond
MaxLate == 1          \* the clock is followed this many ms past the deadline

\* start_time + (ms / 1000.0) is a float sum: adding a non-zero term rounds
\* the deadline to a representable value on either side of the exact one.
DeadlineRounding(ms) == IF ms = 0 THEN {0} ELSE {0 - 1, 0, 1}

\* Mutant: the factor 1000 is missing, the elapsed time is taken in seconds.
ElapsedMs_in_seconds(ticks) == ticks \div (TicksPerMs * 1000)

\* int((time.time() - start_time) * 1000): truncation to whole milliseconds.
ElapsedMs(ticks) == ticks \div TicksPerMs

\* The instant up to which the clock is followed for the request in progress.
Horizon == (Max(0, work.requested_ms) + MaxLate) * TicksPerMs

\* The request arrives: the failure-mode check, the cap, start_time, end_time.
work_begin ==
    /\ work.pc = "idle"
    /\ \E ms \in WorkInputs, first \in get_current_mode :
          IF should_return_500(first.value)
          THEN /\ resp' = [Forced500("/work", first) EXCEPT !.input = ToString(ms)]
               /\ Logged("GET", "/work")
               /\ UNCHANGED work
          ELSE LET limited == Min(ms, WorkLimit)
               IN \E r \in DeadlineRounding(limited) :
                     /\ work' = [pc |-> "loop", ms |-> ms, first |-> <<first>>,
                                 requested_ms |-> limited,
                                 end_time |-> limited * TicksPerMs + r]
                     /\ resp' = Response("-", 0)    \* nothing answered yet
                     /\ log' = NoLog
    /\ now' = 0
    /\ UNCHANGED <<config_vars, ssm_param, db_connection, last_write, infra_vars, entry_vars, health_vars>>

\* while time.time() < end_time: pass -- the reading that ends the loop.
work_loop_exit ==
    /\ work.pc = "loop"
    /\ ~(now < work.end_time)
    /\ work' = [work EXCEPT !.pc = "measure"]
    /\ UNCHANGED <<app_vars, now, infra_vars, entry_vars, health_vars>>

\* actual_ms is measured, the body is returned and the request is logged.
work_return ==
    /\ work.pc = "measure"
    /\ resp' = work_completed(work.ms, work.first[1], work.requested_ms, ElapsedMs(now))
    /\ Logged("GET", "/work")
    /\ work' = NoWork
    /\ now' = 0
    /\ UNCHANGED <<config_vars, ssm_param, db_connection, last_write, infra_vars, entry_vars, health_vars>>

\* The clock advances while a request is in progress.
Tick ==
    /\ work.pc # "idle"
    /\ now < Horizon
    /\ now' = now + 1
    /\ UNCHANGED <<app_vars, work, infra_vars, entry_vars, health_vars>>

\* The parameter an operator may have set before the process started.
WorkStart ==
    /\ deployed = TRUE
    /\ PARAM_FAILURE_MODE = ContainerEnvironment(TRUE).PARAM_FAILURE_MODE
    /\ DB_SECRET_ARN = ContainerEnvironment(TRUE).DB_SECRET_ARN
    /\ allowed_actions = TaskRolePolicy(TRUE)
    /\ ssm_param \in {"none", "return_500"}
    /\ db_connection = None
    /\ resp = Response("-", 0)
    /\ log = NoLog
    /\ last_write = [by |-> "deploy", value |-> ssm_param]
    /\ work = NoWork
    /\ now = 0

InitWork == WorkStart /\ InfraParked /\ EntryParked /\ HealthParked

NextWork ==
    \/ work_begin
    \/ work_loop_exit
    \/ work_return
    \/ Tick

SpecWork == InitWork /\ [][NextWork]_vars

\* The clock advances and the event loop runs the handler's next statement.
SpecWorkFair ==
    /\ SpecWork
    /\ WF_vars(Tick)
    /\ WF_vars(work_loop_exit)
    /\ WF_vars(work_return)

\* C22: GET /work caps the wait: for every integer ms, zero and negative
\* ones included, a request whose mode check is not return_500 works with
\* and reports requested_ms = min(ms, 5000), and its deadline lies, in whole
\* milliseconds, no more than 5000 ms after start_time.
C22_Capped(ms, requested_ms) ==
    /\ requested_ms = (IF ms <= 5000 THEN ms ELSE 5000)
    /\ requested_ms <= 5000

C23_ActualAtLeastRequested ==
    (resp.endpoint = "/work" /\ resp.status = 200)
        => resp.actual_ms >= Max(0, resp.requested_ms)

\* C23 amended: GET /work always terminates: the loop is left only at a
\* clock reading that is not below the deadline, is left at the first
\* reading when ms <= 0, and, the clock advancing, every request in the loop
\* ends with a 200 answer; the answer has actual_ms >= 0 and
\* actual_ms >= requested_ms - 1 (the deadline is a rounded float sum and
\* actual_ms is truncated, so it can be one below requested_ms).
C23_WorkState ==
    /\ (work.pc = "loop" /\ work.requested_ms <= 0) => ~(now < work.end_time)
    /\ work.pc = "measure" => ~(now < work.end_time)
    /\ work.pc # "idle" => now <= Horizon
    /\ (resp.endpoint = "/work" /\ resp.status = 200) =>
          /\ resp.actual_ms >= 0
          /\ resp.actual_ms >= resp.requested_ms - 1

C23_WorkTerminates ==
    /\ []C23_WorkState
    /\ (work.pc = "loop")
          ~> (work.pc = "idle" /\ resp.endpoint = "/work" /\ resp.status = 200)

C23_Witness ==
    /\ work.pc = "idle"
    /\ resp.endpoint = "/work"
    /\ resp.status = 200
    /\ resp.requested_ms = 5000
    /\ resp.actual_ms = 4999

(***************************************************************************)
(* The health check ComputeStack declares on its target groups             *)
(* (compute_stack.py:227-236), run against the application's GET /healthz. *)
(* A check passes when the status is the declared healthy code; the target *)
(* turns healthy after healthy_threshold_count consecutive passes and      *)
(* unhealthy after unhealthy_threshold_count consecutive failures.         *)
(***************************************************************************)
ServiceTargetGroup == TargetGroup("target_group_1", "golden-path-tg1")

HealthCheckPassed(tg, status) == ToString(status) = tg.healthy_http_codes

\* Mutant: a passed check does not end the run of failed ones.
EvaluateCheck_no_reset(tg, t, passed) ==
    IF passed
    THEN LET n == Min(t.passed + 1, tg.healthy_threshold_count)
         IN [state |-> IF n >= tg.healthy_threshold_count THEN "healthy" ELSE t.state,
             passed |-> n, failed |-> t.failed]
    ELSE LET n == Min(t.failed + 1, tg.unhealthy_threshold_count)
         IN [state |-> IF n >= tg.unhealthy_threshold_count THEN "unhealthy" ELSE t.state,
             passed |-> 0, failed |-> n]

\* The target after one more check.
EvaluateCheck(tg, t, passed) ==
    IF passed
    THEN LET n == Min(t.passed + 1, tg.healthy_threshold_count)
         IN [state |-> IF n >= tg.healthy_threshold_count THEN "healthy" ELSE t.state,
             passed |-> n, failed |-> 0]
    ELSE LET n == Min(t.failed + 1, tg.unhealthy_threshold_count)
         IN [state |-> IF n >= tg.unhealthy_threshold_count THEN "unhealthy" ELSE t.state,
             passed |-> 0, failed |-> n]

\* The modes read by the last unhealthy_threshold_count checks.
LastChecks(tg, seq) ==
    IF Len(seq) > tg.unhealthy_threshold_count THEN Tail(seq) ELSE seq

\* The load balancer requests health_check_path and evaluates the answer.
TargetGroupHealthCheck ==
    /\ target.state # "unregistered"
    /\ ServiceTargetGroup.health_check_path = "/healthz"
    /\ \E first \in get_current_mode :
          /\ resp' = health_check_response(first)
          /\ checks' = LastChecks(ServiceTargetGroup, Append(checks, first.value))
    /\ Logged("GET", "/healthz")
    /\ target' = EvaluateCheck(ServiceTargetGroup, target,
                               HealthCheckPassed(ServiceTargetGroup, resp'.status))
    /\ UNCHANGED <<config_vars, ssm_param, db_connection, last_write, infra_vars, entry_vars, work_vars>>

\* The task has just been registered with the target group.
HealthStart ==
    /\ target = [state |-> "initial", passed |-> 0, failed |-> 0]
    /\ checks = <<>>

InitHealth == InitApp /\ HealthStart /\ InfraParked /\ EntryParked /\ WorkParked

NextHealth ==
    \/ TargetGroupHealthCheck
    \/ ExternalWrite

SpecHealth == InitHealth /\ [][NextHealth]_vars

\* The i-th newest of the remembered checks read return_500.
C25_Read500(seq, i) == seq[Len(seq) + 1 - i] = "return_500"

\* C25: health checking tracks the failure mode: GET /healthz answers 200
\* exactly when the mode it read is not "return_500" (and 500 otherwise);
\* the target turns unhealthy only on a check that completes three
\* consecutive checks that read return_500; after two consecutive checks
\* that read another mode it is healthy; and while it is unhealthy one of
\* the last two checks read return_500.
C25_HealthState ==
    /\ resp.endpoint = "/healthz" =>
          /\ resp.status \in {200, 500}
          /\ resp.status = 200 <=> resp.mode # "return_500"
          /\ checks # <<>> /\ resp.mode = checks[Len(checks)]
    /\ (Len(checks) >= 2 /\ ~C25_Read500(checks, 1) /\ ~C25_Read500(checks, 2))
          => target.state = "healthy"
    /\ target.state = "unhealthy" =>
          /\ Len(checks) >= 2
          /\ C25_Read500(checks, 1) \/ C25_Read500(checks, 2)
    /\ (\A i \in 1..Len(checks) : checks[i] # "return_500") =>
          target.state # "unhealthy"

C25_HealthTracksMode ==
    /\ []C25_HealthState
    /\ [][(target.state # "unhealthy" /\ target'.state = "unhealthy")
            => (/\ Len(checks') >= 3
                /\ \A i \in 1..3 : C25_Read500(checks', i))]_vars
    /\ [][(target.state = "unhealthy" /\ target'.state # "unhealthy")
            => (/\ target'.state = "healthy"
                /\ ~C25_Read500(checks', 1) /\ ~C25_Read500(checks', 2))]_vars

\* Unhealthy after three checks that read return_500, then one check that
\* read none: still unhealthy, one pass counted.
C25_Witness ==
    /\ target.state = "unhealthy"
    /\ target.passed = 1
    /\ checks = <<"return_500", "return_500", "none">>
    /\ resp.endpoint = "/healthz"
    /\ resp.status = 200
====
